---- MODULE Spec2Model ----
(***************************************************************************)
(* A model of gpt-crawler's core (src/unnamed/part_000): the batch writer  *)
(* write(), the per-page writer savePageToFile() with its directory        *)
(* creation, the page handler requestHandler(), and the pure function      *)
(* extractFilename().                                                      *)
(***************************************************************************)
EXTENDS Integers, Sequences, FiniteSets, TLC

VARIABLES
    config,              \* the Config object, fixed for a run
    \* ---- write() ----
    jsonFiles,           \* the records found by glob, in iteration order
    wpc,                 \* position of write(): "loop" | "done"
    idx,                 \* index in jsonFiles of the next record to process
    currentResults,      \* the current batch
    currentSize,         \* running byte counter
    fileCounter,         \* number of the next output file
    estimatedTokens,     \* running token counter
    nextFileNameString,  \* name of the last file written (empty before any)
    outFiles,            \* output files on disk: name -> records
    written,             \* names passed to writeFile, in call order
    returned,            \* value returned by write() (NoValue before return)
    flushLog,            \* history: the batch and both counters as each
                         \* writeBatchToFile call left them, in call order
    \* ---- a call of extractFilename() ----
    efUrl,               \* argument url
    efMatch,             \* argument matchPattern: a string or an array of strings
    efResult,            \* the value returned (NoValue before the call)
    \* ---- crawl() ----
    hpc,                 \* per page: position of its requestHandler invocation
    attempts,            \* per page: handler invocations started so far
    herr,                \* per page: the error that ended its last invocation
    pageCounter,         \* the module-level pageCounter
    dirs,                \* directories that exist
    pageFiles,           \* per-page files on disk: path -> record
    dataset,             \* the record store: records pushed by pushData, in order
    steps,               \* history, per page: the steps its current (else its
                         \* last) handler invocation has completed, in order
    timeouts             \* history, per page: its invocations that ended by a
                         \* selector timeout

writeVars == <<jsonFiles, wpc, idx, currentResults, currentSize, fileCounter,
               estimatedTokens, nextFileNameString, outFiles, written, returned,
               flushLog>>

efVars == <<efUrl, efMatch, efResult>>

crawlVars == <<hpc, attempts, herr, pageCounter, dirs, pageFiles, dataset, steps,
               timeouts>>

vars == <<config, writeVars, efVars, crawlVars>>

----------------------------------------------------------------------------
(* Bounds and input domains *)

MaxRecords == 3
\* longest URL tail (what follows https://x) of the extractFilename inputs
MaxTailLen == 4
\* config.maxRequestRetries of the crawls explored
MaxRetries == 1

\* an optional config field that is not set
Undefined == -1
\* the JavaScript number Infinity
Infinity == -2
\* the value undefined of a string or of a variable not assigned yet
NoValue == <<"novalue">>
\* the empty string
EmptyString == <<>>

\* token counts of the serialized records the input draws from
TokenCounts == {1000, 1500, 2500}
\* UTF-8 byte lengths of the serialized records the input draws from
ByteSizes == {400000, 700000, 1100000}
MaxTokensOptions == {Undefined, 2000}
MaxFileSizeOptions == {Undefined, 1}

OutputFileName == <<"out", ".json">>

RECURSIVE SeqsUpTo(_, _)
SeqsUpTo(S, n) ==
    IF n = 0 THEN {<<>>}
    ELSE LET shorter == SeqsUpTo(S, n - 1)
         IN  shorter \cup {Append(s, x) : s \in {t \in shorter : Len(t) = n - 1}, x \in S}

\* every record sequence of at most MaxRecords records; a record carries its
\* position in the input as identity
RecordSeqs ==
    LET shapes == SeqsUpTo(TokenCounts \X ByteSizes, MaxRecords)
    IN  {[k \in 1..Len(s) |-> [id |-> k, tokens |-> s[k][1], bytes |-> s[k][2]]] : s \in shapes}

----------------------------------------------------------------------------
(* Strings are sequences of symbols.  "https:" and "index" are single       *)
(* symbols that hold no "/"; every other symbol is one character.           *)

UrlPrefix == <<"https:", "/", "/", "x">>
TailSymbols == {"/", "a", "b", "B"}
Urls == {UrlPrefix \o t : t \in SeqsUpTo(TailSymbols, MaxTailLen)}

\* match patterns; "**" is the glob wildcard token
Patterns ==
    {UrlPrefix \o t : t \in {<<"/", "**">>, <<"/", "a">>, <<"/", "a", "/", "**">>,
                             <<"**">>, <<"/", "**", "/", "**">>, <<"/", "b", "**", "a">>}}

\* matchPattern: string | string[]
MatchPatterns ==
    [kind : {"string"}, v : Patterns]
        \cup [kind : {"array"}, v : SeqsUpTo(Patterns, 2)]

\* String.prototype.toLowerCase, per symbol
LowerSym(c) == IF c = "B" THEN "b" ELSE c
ToLowerCase(s) == [k \in 1..Len(s) |-> LowerSym(s[k])]

RECURSIVE MatchFrom(_, _, _, _)
\* the regex tokens pat[i..] match s from position j on (the regex is not
\* anchored at the end); "**" has become (.+): one or more characters
MatchFrom(pat, i, s, j) ==
    IF i > Len(pat) THEN TRUE
    ELSE IF pat[i] = "**"
         THEN \E k \in j..Len(s) : MatchFrom(pat, i + 1, s, k + 1)
         ELSE j <= Len(s) /\ s[j] = pat[i] /\ MatchFrom(pat, i + 1, s, j + 1)

\* new RegExp(p.replace(/\*\*/g, "(.+)")).test(url): a match at some position
RegexTest(pat, s) == \E st \in 1..(Len(s) + 1) : MatchFrom(pat, 1, s, st)

\* index of the first "**" of pat, 0 if none
FirstWildcard(pat) ==
    IF \E i \in 1..Len(pat) : pat[i] = "**"
    THEN CHOOSE i \in 1..Len(pat) :
             pat[i] = "**" /\ \A h \in 1..(i - 1) : pat[h] # "**"
    ELSE 0

\* url.match(regex)[1]: the first group of the leftmost match, taken greedily
\* (the longest capture the rest of the regex still matches after); NoValue
\* (undefined) if the regex has no group.  Only used when RegexTest(pat, s).
FirstGroup(pat, s) ==
    LET st == CHOOSE a \in 1..(Len(s) + 1) :
                  /\ MatchFrom(pat, 1, s, a)
                  /\ \A b \in 1..(a - 1) : ~MatchFrom(pat, 1, s, b)
        w  == FirstWildcard(pat)
    IN  IF w = 0 THEN NoValue
        ELSE LET j == st + (w - 1)
                 e == CHOOSE k \in j..Len(s) :
                          /\ MatchFrom(pat, w + 1, s, k + 1)
                          /\ \A m \in (k + 1)..Len(s) : ~MatchFrom(pat, w + 1, s, m + 1)
             IN  SubSeq(s, j, e)

RECURSIVE StripLeading(_)
StripLeading(s) ==
    IF Len(s) > 0 /\ s[1] = "/" THEN StripLeading(Tail(s)) ELSE s

RECURSIVE StripTrailing(_)
StripTrailing(s) ==
    IF Len(s) > 0 /\ s[Len(s)] = "/" THEN StripTrailing(SubSeq(s, 1, Len(s) - 1)) ELSE s

\* .replace(/^\/+|\/+$/g, "")
StripSlashes(s) == StripTrailing(StripLeading(s))

\* .replace(/\//g, "_")
SlashesToUnderscores(s) == [k \in 1..Len(s) |-> IF s[k] = "/" THEN "_" ELSE s[k]]

\* mutant: the clean-up forgets toLowerCase
CleanCaptureNoLower(cap) == SlashesToUnderscores(StripSlashes(cap))

\* lines 95-98
CleanCapture(cap) == ToLowerCase(SlashesToUnderscores(StripSlashes(cap)))

\* url.split("/").pop(): what follows the last "/" (the whole string if none)
LastSegment(s) ==
    LET slashes == {k \in 1..Len(s) : s[k] = "/"}
    IN  IF slashes = {} THEN s
        ELSE LET last == CHOOSE k \in slashes : \A m \in slashes : m <= k
             IN  SubSeq(s, last + 1, Len(s))

\* url.split("/").pop() || "index"
UrlBasedName(s) == IF LastSegment(s) = EmptyString THEN <<"index">> ELSE LastSegment(s)

\* Array.isArray(matchPattern) ? matchPattern : [matchPattern]
AsArray(m) == IF m.kind = "array" THEN m.v ELSE <<m.v>>

\* patterns.find(...): the first pattern whose regex matches, NoValue
\* (undefined) if none
FindPattern(patterns, url) ==
    IF \E k \in 1..Len(patterns) : RegexTest(patterns[k], url)
    THEN patterns[CHOOSE k \in 1..Len(patterns) :
                      /\ RegexTest(patterns[k], url)
                      /\ \A h \in 1..(k - 1) : ~RegexTest(patterns[h], url)]
    ELSE NoValue

ExtractFilename(url, matchPattern) ==
    LET pattern == FindPattern(AsArray(matchPattern), url)
    IN  IF pattern = NoValue \/ pattern = EmptyString
        THEN UrlBasedName(url)
        ELSE LET g == FirstGroup(pattern, url)
             IN  IF g # NoValue /\ g # EmptyString
                 THEN CleanCapture(g)
                 ELSE UrlBasedName(url)

----------------------------------------------------------------------------
(* write(): helpers *)

\* a > b where b may be Infinity or Undefined (a comparison with undefined is false)
Gt(a, b) ==
    IF b = Infinity \/ b = Undefined THEN FALSE ELSE a > b

\* x || Infinity
OrInfinity(x) == IF x = Undefined \/ x = 0 THEN Infinity ELSE x

\* gpt-tokenizer's isWithinTokenLimit: the token count, or false (here
\* Undefined) once the count exceeds the limit
IsWithinTokenLimit(tokens, limit) ==
    IF Gt(tokens, limit) THEN Undefined ELSE tokens

\* mutant: an unset maxFileSize read as a ceiling of 0 bytes
MaxBytesUnsetIsZero(cfg) ==
    IF cfg.maxFileSize # Undefined /\ cfg.maxFileSize # 0
    THEN cfg.maxFileSize * 1024 * 1024
    ELSE 0

MaxBytes(cfg) ==
    IF cfg.maxFileSize # Undefined /\ cfg.maxFileSize # 0
    THEN cfg.maxFileSize * 1024 * 1024
    ELSE Infinity

\* outputFileName.replace(/\.json$/, "")
StripJson(name) ==
    IF Len(name) > 0 /\ name[Len(name)] = ".json"
    THEN SubSeq(name, 1, Len(name) - 1)
    ELSE name

\* `${stem}-${fileCounter}.json`
NextFileName(cfg, counter) == <<StripJson(cfg.outputFileName), counter, ".json">>

\* a flushLog entry: the variables writeBatchToFile leaves behind
AfterFlush(batch, size, tokens) ==
    [currentResults |-> batch, currentSize |-> size, estimatedTokens |-> tokens]

\* mutant: the flush forgets fileCounter++
WriteBatchToFileNoIncrement(cfg, s) ==
    LET name == NextFileName(cfg, s.fileCounter)
    IN  [s EXCEPT !.nextFileNameString = name,
                  !.outFiles = [n \in DOMAIN s.outFiles \cup {name} |->
                                   IF n = name THEN s.currentResults ELSE s.outFiles[n]],
                  !.written = Append(s.written, name),
                  !.currentResults = <<>>,
                  !.currentSize = 0,
                  !.flushLog = Append(s.flushLog, AfterFlush(<<>>, 0, s.estimatedTokens))]

WriteBatchToFile(cfg, s) ==
    LET name == NextFileName(cfg, s.fileCounter)
    IN  [s EXCEPT !.nextFileNameString = name,
                  !.outFiles = [n \in DOMAIN s.outFiles \cup {name} |->
                                   IF n = name THEN s.currentResults ELSE s.outFiles[n]],
                  !.written = Append(s.written, name),
                  !.currentResults = <<>>,
                  !.currentSize = 0,
                  !.fileCounter = s.fileCounter + 1,
                  !.flushLog = Append(s.flushLog, AfterFlush(<<>>, 0, s.estimatedTokens))]

\* mutant: the overflow test forgets the running counter
TokenBranchIgnoresRunningCount(cfg, s, data) ==
    LET tokenCount == IsWithinTokenLimit(data.tokens, OrInfinity(cfg.maxTokens))
    IN  IF tokenCount # Undefined
        THEN IF Gt(tokenCount, cfg.maxTokens)
             THEN LET f == IF Len(s.currentResults) > 0
                           THEN WriteBatchToFile(cfg, s) ELSE s
                  IN  [f EXCEPT !.estimatedTokens = tokenCount \div 2,
                                !.currentResults = Append(f.currentResults, data)]
             ELSE [s EXCEPT !.currentResults = Append(s.currentResults, data),
                            !.estimatedTokens = s.estimatedTokens + tokenCount]
        ELSE s

\* lines 293-306: the token branch
TokenBranch(cfg, s, data) ==
    LET tokenCount == IsWithinTokenLimit(data.tokens, OrInfinity(cfg.maxTokens))
    IN  IF tokenCount # Undefined
        THEN IF Gt(s.estimatedTokens + tokenCount, cfg.maxTokens)
             THEN LET f == IF Len(s.currentResults) > 0
                           THEN WriteBatchToFile(cfg, s) ELSE s
                  IN  [f EXCEPT !.estimatedTokens = tokenCount \div 2,
                                !.currentResults = Append(f.currentResults, data)]
             ELSE [s EXCEPT !.currentResults = Append(s.currentResults, data),
                            !.estimatedTokens = s.estimatedTokens + tokenCount]
        ELSE s

\* lines 308-311: the byte branch
ByteBranch(cfg, s, data) ==
    LET t == [s EXCEPT !.currentSize = s.currentSize + data.bytes]
    IN  IF Gt(t.currentSize, MaxBytes(cfg)) THEN WriteBatchToFile(cfg, t) ELSE t

AddContentOrSplitFn(cfg, s, data) == ByteBranch(cfg, TokenBranch(cfg, s, data), data)

\* lines 321-324: the final flush
FinalFlush(cfg, s) ==
    IF Len(s.currentResults) > 0 THEN WriteBatchToFile(cfg, s) ELSE s

WState ==
    [currentResults |-> currentResults, currentSize |-> currentSize,
     fileCounter |-> fileCounter, estimatedTokens |-> estimatedTokens,
     nextFileNameString |-> nextFileNameString, outFiles |-> outFiles,
     written |-> written, flushLog |-> flushLog]

SetWState(s) ==
    /\ currentResults' = s.currentResults
    /\ currentSize' = s.currentSize
    /\ fileCounter' = s.fileCounter
    /\ estimatedTokens' = s.estimatedTokens
    /\ nextFileNameString' = s.nextFileNameString
    /\ outFiles' = s.outFiles
    /\ written' = s.written
    /\ flushLog' = s.flushLog

----------------------------------------------------------------------------
(* write(): state machine *)

\* the crawled sites: the pages of each, by URL; every page links to every page
Sites ==
    {{UrlPrefix \o <<"/", "b">>, UrlPrefix \o <<"/", "a">>},
     {UrlPrefix \o <<"/", "b">>, UrlPrefix \o <<"/", "B">>}}

\* the pages of the site being crawled
CrawlUrls == DOMAIN hpc

DefaultConfig ==
    [url |-> UrlPrefix \o <<"/", "b">>,
     match |-> [kind |-> "string", v |-> UrlPrefix \o <<"/", "**">>],
     outputFileName |-> OutputFileName,
     maxTokens |-> Undefined,
     maxFileSize |-> Undefined,
     savePerPage |-> FALSE,
     selector |-> FALSE,
     onVisitPage |-> FALSE,
     throttle |-> FALSE,
     maxConcurrency |-> 1,
     maxRequestRetries |-> MaxRetries]

ConfigsWrite ==
    {[DefaultConfig EXCEPT !.maxTokens = t, !.maxFileSize = f] :
        t \in MaxTokensOptions, f \in MaxFileSizeOptions}

\* crawl() has not been called
IdleCrawlVars ==
    /\ hpc = <<>>
    /\ attempts = <<>>
    /\ herr = <<>>
    /\ pageCounter = 0
    /\ dirs = {}
    /\ pageFiles = <<>>
    /\ dataset = <<>>
    /\ steps = <<>>
    /\ timeouts = <<>>

InitWriteVars ==
    /\ wpc = "loop"
    /\ idx = 1
    /\ currentResults = <<>>
    /\ currentSize = 0
    /\ fileCounter = 1
    /\ estimatedTokens = 0
    /\ nextFileNameString = EmptyString
    /\ outFiles = <<>>
    /\ written = <<>>
    /\ returned = NoValue
    /\ flushLog = <<>>

\* no call of extractFilename is under way
IdleFilenameVars ==
    /\ efUrl = NoValue
    /\ efMatch = NoValue
    /\ efResult = NoValue

Init ==
    /\ config \in ConfigsWrite
    /\ jsonFiles \in RecordSeqs
    /\ InitWriteVars
    /\ IdleFilenameVars
    /\ IdleCrawlVars

\* one iteration of the for loop: read the next record, addContentOrSplit
AddContentOrSplit ==
    /\ wpc = "loop"
    /\ idx <= Len(jsonFiles)
    /\ SetWState(AddContentOrSplitFn(config, WState, jsonFiles[idx]))
    /\ idx' = idx + 1
    /\ UNCHANGED <<config, jsonFiles, wpc, returned, efVars, crawlVars>>

\* after the loop: flush what remains and return nextFileNameString
Finish ==
    /\ wpc = "loop"
    /\ idx > Len(jsonFiles)
    /\ LET s == FinalFlush(config, WState)
       IN  /\ SetWState(s)
           /\ returned' = s.nextFileNameString
    /\ wpc' = "done"
    /\ UNCHANGED <<config, jsonFiles, idx, efVars, crawlVars>>

Next == AddContentOrSplit \/ Finish

Spec == Init /\ [][Next]_vars

----------------------------------------------------------------------------
(* extractFilename() applied to every input within the bounds *)

\* write() has not been called
IdleWriteVars ==
    /\ jsonFiles = <<>>
    /\ InitWriteVars

InitFilename ==
    /\ config = DefaultConfig
    /\ IdleWriteVars
    /\ IdleCrawlVars
    /\ efUrl \in Urls
    /\ efMatch \in MatchPatterns
    /\ efResult = NoValue

CallExtractFilename ==
    /\ efResult = NoValue
    /\ efResult' = ExtractFilename(efUrl, efMatch)
    /\ UNCHANGED <<config, writeVars, efUrl, efMatch, crawlVars>>

NextFilename == CallExtractFilename

SpecFilename == InitFilename /\ [][NextFilename]_vars

----------------------------------------------------------------------------
(* crawl(): the page handlers, run by the crawler engine with at most       *)
(* config.maxConcurrency of them under way at a time                        *)

\* outputFileName.replace(/\.[^/.]+$/, "")
StripExtension(name) ==
    IF Len(name) > 1 /\ name[Len(name)] \in {".json", ".txt"}
    THEN SubSeq(name, 1, Len(name) - 1)
    ELSE name

PagesDir == <<"pages">>
SubfolderPath(cfg) == <<"pages", StripExtension(cfg.outputFileName)>>

\* extractFilename(pageData.url, config.match) of the pages crawled, tabulated
\* for the match pattern of the crawls explored
PageFilenames == [u \in UNION Sites |-> ExtractFilename(u, DefaultConfig.match)]

\* lines 109-110: join(subfolder, `${filename}.json`)
PageFilePath(cfg, u) ==
    <<SubfolderPath(cfg),
      IF cfg.match = DefaultConfig.match /\ u \in DOMAIN PageFilenames
      THEN PageFilenames[u]
      ELSE ExtractFilename(u, cfg.match),
      ".json">>

\* the record { title, url, html } of a page; a page is identified by its URL
PageData(u) == [url |-> u]

SitemapUrl == UrlPrefix \o <<"/", "sitemap.xml">>

\* line 230: /sitemap.*\.xml$/.test(config.url); "sitemap.xml" is one symbol
IsUrlASitemap(url) == Len(url) > 0 /\ url[Len(url)] = "sitemap.xml"

\* lines 232-243: the requests the crawl starts with; downloadListOfUrls gives
\* the pages the sitemap lists, here every page of the site
StartRequests(cfg, site) ==
    IF IsUrlASitemap(cfg.url) THEN site ELSE {cfg.url}

ConfigsCrawl ==
    {[DefaultConfig EXCEPT !.url = r, !.savePerPage = s, !.selector = x,
                           !.onVisitPage = h, !.throttle = d, !.maxConcurrency = c] :
        r \in {DefaultConfig.url, SitemapUrl},
        s \in BOOLEAN, x \in BOOLEAN, h \in BOOLEAN, d \in BOOLEAN, c \in {1, 2}}

InitCrawl ==
    /\ config \in ConfigsCrawl
    /\ IdleWriteVars
    /\ IdleFilenameVars
    /\ \E site \in Sites :
           /\ hpc = [u \in site |->
                        IF u \in StartRequests(config, site) THEN "queued" ELSE "new"]
           /\ attempts = [u \in site |-> 0]
           /\ herr = [u \in site |-> "none"]
           /\ steps = [u \in site |-> <<>>]
           /\ timeouts = [u \in site |-> 0]
    /\ pageCounter = 0
    /\ dirs \in {{}, {PagesDir}, {PagesDir, SubfolderPath(config)}}
    /\ pageFiles = <<>>
    /\ dataset = <<>>

\* the positions at which a handler invocation is under way
RunningPcs ==
    {"selector", "extract", "save", "mkdirPages", "mkdirSub", "writeFile", "push",
     "hook", "delay", "sleeping", "enqueue"}

Running == {u \in CrawlUrls : hpc[u] \in RunningPcs}

\* page u belongs to the crawled site and its handler is at pc
At(u, pc) == u \in CrawlUrls /\ hpc[u] = pc

Goto(u, pc) == hpc' = [hpc EXCEPT ![u] = pc]

Fail(u, err) ==
    /\ hpc' = [hpc EXCEPT ![u] = "failed"]
    /\ herr' = [herr EXCEPT ![u] = err]

\* steps once the current invocation of u has completed step
Completed(u, step) == [steps EXCEPT ![u] = Append(@, step)]

\* lines 65-67 onward: the subfolder check of ensurePagesDirectory
AfterPagesDir(d) ==
    IF SubfolderPath(config) \notin d THEN "mkdirSub" ELSE "writeFile"

\* mutant: savePageToFile without its savePerPage guard
SavePageEntryNoGuard(cfg, d) ==
    IF PagesDir \notin d THEN "mkdirPages" ELSE AfterPagesDir(d)

\* lines 106-108, 57-60: where savePageToFile goes first
SavePageEntry(cfg, d) ==
    IF ~cfg.savePerPage THEN "push"
    ELSE IF PagesDir \notin d THEN "mkdirPages" ELSE AfterPagesDir(d)

\* the engine takes a queued request: title read, pageCounter++
StartHandler(u) ==
    /\ At(u, "queued")
    /\ Cardinality(Running) < config.maxConcurrency
    /\ Goto(u, "selector")
    /\ attempts' = [attempts EXCEPT ![u] = @ + 1]
    /\ pageCounter' = pageCounter + 1
    /\ steps' = [steps EXCEPT ![u] = <<>>]
    /\ UNCHANGED <<config, writeVars, efVars, herr, dirs, pageFiles, dataset,
                   timeouts>>

\* lines 143-155: no selector, or the selector appears in time
SelectorFound(u) ==
    /\ At(u, "selector")
    /\ Goto(u, "extract")
    /\ steps' = IF config.selector THEN Completed(u, "waitForSelector") ELSE steps
    /\ UNCHANGED <<config, writeVars, efVars, attempts, herr, pageCounter, dirs,
                   pageFiles, dataset, timeouts>>

\* a handler that catches the timeout and carries on with the extraction
SelectorTimedOutSwallowed(u) ==
    /\ At(u, "selector")
    /\ config.selector
    /\ Goto(u, "extract")
    /\ steps' = steps
    /\ timeouts' = [timeouts EXCEPT ![u] = @ + 1]
    /\ UNCHANGED <<config, writeVars, efVars, attempts, herr, pageCounter, dirs,
                   pageFiles, dataset>>

\* lines 143-155: the wait for the selector times out and throws
SelectorTimedOut(u) ==
    /\ At(u, "selector")
    /\ config.selector
    /\ Fail(u, "TimedOut")
    /\ steps' = steps
    /\ timeouts' = [timeouts EXCEPT ![u] = @ + 1]
    /\ UNCHANGED <<config, writeVars, efVars, attempts, pageCounter, dirs,
                   pageFiles, dataset>>

\* a handler that pushes the record straight after the extraction
GetPageHtmlThenPush(u) ==
    /\ At(u, "extract")
    /\ Goto(u, "push")
    /\ steps' = Completed(u, "getPageHtml")
    /\ UNCHANGED <<config, writeVars, efVars, attempts, herr, pageCounter, dirs,
                   pageFiles, dataset, timeouts>>

\* lines 157-158
GetPageHtml(u) ==
    /\ At(u, "extract")
    /\ Goto(u, "save")
    /\ steps' = Completed(u, "getPageHtml")
    /\ UNCHANGED <<config, writeVars, efVars, attempts, herr, pageCounter, dirs,
                   pageFiles, dataset, timeouts>>

\* lines 161, 105-108, 56-59: savePageToFile up to its first await
SavePageToFile(u) ==
    /\ At(u, "save")
    /\ Goto(u, SavePageEntry(config, dirs))
    /\ steps' = IF hpc'[u] = "push" THEN Completed(u, "savePageToFile") ELSE steps
    /\ UNCHANGED <<config, writeVars, efVars, attempts, herr, pageCounter, dirs,
                   pageFiles, dataset, timeouts>>

\* line 59: mkdir(pagesDir) completes; it rejects with EEXIST if the
\* directory exists by now
MkdirPages(u) ==
    /\ At(u, "mkdirPages")
    /\ IF PagesDir \in dirs
       THEN Fail(u, "EEXIST") /\ UNCHANGED dirs
       ELSE /\ dirs' = dirs \cup {PagesDir}
            /\ Goto(u, AfterPagesDir(dirs'))
            /\ UNCHANGED herr
    /\ UNCHANGED <<config, writeVars, efVars, attempts, pageCounter, pageFiles,
                   dataset, timeouts, steps>>

\* line 66: mkdir(subfolderPath) completes
MkdirSub(u) ==
    /\ At(u, "mkdirSub")
    /\ IF SubfolderPath(config) \in dirs
       THEN Fail(u, "EEXIST") /\ UNCHANGED dirs
       ELSE /\ dirs' = dirs \cup {SubfolderPath(config)}
            /\ Goto(u, "writeFile")
            /\ UNCHANGED herr
    /\ UNCHANGED <<config, writeVars, efVars, attempts, pageCounter, pageFiles,
                   dataset, timeouts, steps>>

\* lines 109-111: the per-page file is written (an existing file is replaced)
WritePageFile(u) ==
    /\ At(u, "writeFile")
    /\ LET path == PageFilePath(config, u)
       IN  pageFiles' = [f \in DOMAIN pageFiles \cup {path} |->
                            IF f = path THEN PageData(u) ELSE pageFiles[f]]
    /\ Goto(u, "push")
    /\ steps' = Completed(u, "savePageToFile")
    /\ UNCHANGED <<config, writeVars, efVars, attempts, herr, pageCounter,
                   dirs, dataset, timeouts>>

\* line 164
PushData(u) ==
    /\ At(u, "push")
    /\ dataset' = Append(dataset, PageData(u))
    /\ Goto(u, "hook")
    /\ steps' = Completed(u, "pushData")
    /\ UNCHANGED <<config, writeVars, efVars, attempts, herr, pageCounter,
                   dirs, pageFiles, timeouts>>

\* lines 166-168: no hook, or the hook returns
OnVisitPageDone(u) ==
    /\ At(u, "hook")
    /\ Goto(u, "delay")
    /\ steps' = IF config.onVisitPage THEN Completed(u, "onVisitPage") ELSE steps
    /\ UNCHANGED <<config, writeVars, efVars, attempts, herr, pageCounter, dirs,
                   pageFiles, dataset, timeouts>>

\* lines 166-168: the user's hook throws
OnVisitPageThrows(u) ==
    /\ At(u, "hook")
    /\ config.onVisitPage
    /\ Fail(u, "HookError")
    /\ UNCHANGED <<config, writeVars, efVars, attempts, pageCounter, dirs,
                   pageFiles, dataset, timeouts, steps>>

\* lines 171-173: with throttling the handler suspends on its timer
Delay(u) ==
    /\ At(u, "delay")
    /\ Goto(u, IF config.throttle THEN "sleeping" ELSE "enqueue")
    /\ UNCHANGED <<config, writeVars, efVars, attempts, herr, pageCounter, dirs,
                   pageFiles, dataset, timeouts, steps>>

\* line 13: the timer of delay() fires
DelayElapsed(u) ==
    /\ At(u, "sleeping")
    /\ Goto(u, "enqueue")
    /\ steps' = Completed(u, "delay")
    /\ UNCHANGED <<config, writeVars, efVars, attempts, herr, pageCounter, dirs,
                   pageFiles, dataset, timeouts>>

\* lines 177-184: the links of the page are added to the queue (requests the
\* queue already knows are not added again); the handler returns
EnqueueLinks(u) ==
    /\ At(u, "enqueue")
    /\ hpc' = [v \in CrawlUrls |->
                  IF v = u THEN "done"
                  ELSE IF hpc[v] = "new" THEN "queued" ELSE hpc[v]]
    /\ steps' = Completed(u, "enqueueLinks")
    /\ UNCHANGED <<config, writeVars, efVars, attempts, herr, pageCounter, dirs,
                   pageFiles, dataset, timeouts>>

\* line 125: the engine puts a failed request back until its retries are used up
RetryRequest(u) ==
    /\ At(u, "failed")
    /\ attempts[u] <= config.maxRequestRetries
    /\ Goto(u, "queued")
    /\ UNCHANGED <<config, writeVars, efVars, attempts, herr, pageCounter, dirs,
                   pageFiles, dataset, timeouts, steps>>

NextCrawl ==
    \E u \in UNION Sites :
        \/ StartHandler(u)
        \/ SelectorFound(u)
        \/ SelectorTimedOut(u)
        \/ GetPageHtml(u)
        \/ SavePageToFile(u)
        \/ MkdirPages(u)
        \/ MkdirSub(u)
        \/ WritePageFile(u)
        \/ PushData(u)
        \/ OnVisitPageDone(u)
        \/ OnVisitPageThrows(u)
        \/ Delay(u)
        \/ DelayElapsed(u)
        \/ EnqueueLinks(u)
        \/ RetryRequest(u)

SpecCrawl == InitCrawl /\ [][NextCrawl]_vars

----------------------------------------------------------------------------
(* Claims about write() *)

RECURSIVE SumOf(_, _)
\* the sum of field f ("tokens" or "bytes") over a sequence of records
SumOf(recs, f) ==
    IF Len(recs) = 0 THEN 0 ELSE recs[1][f] + SumOf(Tail(recs), f)

SeqRange(s) == {s[k] : k \in 1..Len(s)}

\* the name <stem>-n.json for the configured output file name out.json
OutName(n) == <<<<"out">>, n, ".json">>

\* the records of every file on disk
RecordsOnDisk == UNION {SeqRange(outFiles[n]) : n \in DOMAIN outFiles}

RECURSIVE ConcatFiles(_)
\* the records of the files numbered 1..n, in ascending number, in in-file order
ConcatFiles(n) ==
    IF n = 0 THEN <<>>
    ELSE ConcatFiles(n - 1) \o
         (IF OutName(n) \in DOMAIN outFiles THEN outFiles[OutName(n)] ELSE <<>>)

MaxFileNumber ==
    IF DOMAIN outFiles = {} THEN 0
    ELSE CHOOSE m \in {n[2] : n \in DOMAIN outFiles} :
             \A n \in DOMAIN outFiles : n[2] <= m

\* C1: write() never drops a record: every record processed so far is in the
\* current batch or in an output file, and after write() returns every input
\* record is in some output file.
C1_NeverDropsRecord ==
    /\ \A k \in 1..(idx - 1) :
           jsonFiles[k] \in SeqRange(currentResults) \cup RecordsOnDisk
    /\ wpc = "done" => \A k \in 1..Len(jsonFiles) : jsonFiles[k] \in RecordsOnDisk

\* C2: batch completeness: after write() returns, the output files concatenated
\* in ascending number reproduce the input sequence exactly.
C2_BatchCompleteness ==
    wpc = "done" => ConcatFiles(MaxFileNumber) = jsonFiles

\* C3: byte ceiling: when maxFileSize is set, every output file other than a
\* file holding a single oversized record has at most maxFileSize * 1MB bytes.
C3_ByteCeiling ==
    config.maxFileSize # Undefined =>
        \A n \in DOMAIN outFiles :
            \/ SumOf(outFiles[n], "bytes") <= config.maxFileSize * 1048576
            \/ /\ Len(outFiles[n]) = 1
               /\ outFiles[n][1].bytes > config.maxFileSize * 1048576

\* C4: token ceiling: when maxTokens is set, every output file with more than
\* one record has a true token total of at most maxTokens.
C4_TokenCeiling ==
    config.maxTokens # Undefined =>
        \A n \in DOMAIN outFiles :
            Len(outFiles[n]) > 1 => SumOf(outFiles[n], "tokens") <= config.maxTokens

BothUnset == config.maxFileSize = Undefined /\ config.maxTokens = Undefined

\* C5 (as stated): with both limits unset, any number of input records gives
\* exactly one output file, numbered 1, and nothing is flushed before the end.
C5_UnboundedOneFile ==
    BothUnset =>
        /\ wpc # "done" => written = <<>>
        /\ wpc = "done" => written = <<OutName(1)>> /\ DOMAIN outFiles = {OutName(1)}

\* C5 (amended): with both limits unset, nothing is flushed before the end of
\* the input; one or more input records give exactly one output file, numbered
\* 1, holding all of them; no input record gives no output file and the empty
\* string as return value.
C5_UnboundedOneFileIfAny ==
    BothUnset =>
        /\ wpc # "done" => written = <<>> /\ DOMAIN outFiles = {}
        /\ (wpc = "done" /\ Len(jsonFiles) >= 1) =>
               /\ written = <<OutName(1)>>
               /\ DOMAIN outFiles = {OutName(1)}
               /\ outFiles[OutName(1)] = jsonFiles
        /\ (wpc = "done" /\ Len(jsonFiles) = 0) =>
               /\ written = <<>>
               /\ DOMAIN outFiles = {}
               /\ returned = EmptyString

C5_Witness ==
    /\ BothUnset
    /\ wpc = "done"
    /\ Len(jsonFiles) >= 2
    /\ written = <<OutName(1)>>
    /\ SumOf(jsonFiles, "bytes") > 1048576
    /\ SumOf(jsonFiles, "tokens") > 2000

\* C6: the k flushes of a run write <stem>-1.json .. <stem>-k.json in that
\* order, fileCounter is always one more than the number of flushes so far,
\* and write() returns the name of the last file written.
C6_NumberingAndReturn ==
    /\ \A k \in 1..Len(written) : written[k] = OutName(k)
    /\ fileCounter = Len(written) + 1
    /\ (wpc = "done" /\ Len(written) >= 1) => returned = OutName(Len(written))

C6_Witness ==
    /\ wpc = "done"
    /\ Len(written) >= 3
    /\ returned = OutName(Len(written))

----------------------------------------------------------------------------
(* Claims about extractFilename() *)

\* C9: the output of extractFilename is never empty and never holds a "/".
C9_NameNeverEmptyNoSlash ==
    efResult # NoValue =>
        /\ efResult # EmptyString
        /\ \A k \in 1..Len(efResult) : efResult[k] # "/"

\* s holds p at position st, followed by at least one more symbol
HoldsAt(s, p, st) ==
    /\ st + Len(p) <= Len(s)
    /\ SubSeq(s, st, st + Len(p) - 1) = p

\* the literal part of a pattern of the form <literal>**
LiteralPart(p) == SubSeq(p, 1, Len(p) - 1)

IsLiteralThenWildcard(p) ==
    /\ Len(p) >= 1
    /\ p[Len(p)] = "**"
    /\ \A k \in 1..(Len(p) - 1) : p[k] # "**"

\* what follows the first occurrence of lit in s
AfterFirst(s, lit) ==
    LET st == CHOOSE a \in 1..Len(s) :
                  HoldsAt(s, lit, a) /\ \A b \in 1..(a - 1) : ~HoldsAt(s, lit, b)
    IN  SubSeq(s, st + Len(lit), Len(s))

\* s without its leading and trailing "/", "/" turned to "_", lowercased
Cleaned(s) ==
    LET inner == {k \in 1..Len(s) : s[k] # "/"}
    IN  IF inner = {} THEN <<>>
        ELSE LET lo == CHOOSE k \in inner : \A m \in inner : k <= m
                 hi == CHOOSE k \in inner : \A m \in inner : m <= k
             IN  [k \in 1..(hi - lo + 1) |->
                     LET c == s[lo + k - 1]
                     IN  IF c = "/" THEN "_" ELSE IF c = "B" THEN "b" ELSE c]

\* the patterns of the call, as a sequence
CallPatterns == IF efMatch.kind = "array" THEN efMatch.v ELSE <<efMatch.v>>

\* pattern k is the first of the call to occur in the URL, and it is <literal>**
FirstMatchIsLiteralThenWildcard(k) ==
    /\ k \in 1..Len(CallPatterns)
    /\ IsLiteralThenWildcard(CallPatterns[k])
    /\ \E a \in 1..Len(efUrl) : HoldsAt(efUrl, LiteralPart(CallPatterns[k]), a)
    /\ \A h \in 1..(k - 1) : ~RegexTest(CallPatterns[h], efUrl)

\* C10: when the first pattern the URL matches has the form <literal>**,
\* extractFilename returns what follows the literal in the URL with leading
\* and trailing "/" stripped, inner "/" replaced by "_", lowercased.
C10_PatternExtraction ==
    efResult # NoValue =>
        \A k \in 1..Len(CallPatterns) :
            FirstMatchIsLiteralThenWildcard(k) =>
                efResult = Cleaned(AfterFirst(efUrl, LiteralPart(CallPatterns[k])))

C10_Witness ==
    /\ efUrl = UrlPrefix \o <<"/", "a", "/", "B">>
    /\ efMatch = [kind |-> "string", v |-> UrlPrefix \o <<"/", "**">>]
    /\ efResult = <<"a", "_", "b">>

----------------------------------------------------------------------------
(* Claims about crawl() *)

\* the positions of a handler invocation after ensurePagesDirectory returned
PastEnsure == {"writeFile", "push", "hook", "delay", "sleeping", "enqueue", "done"}

\* the positions of a handler invocation after pushData returned
PastPush == {"hook", "delay", "sleeping", "enqueue", "done"}

\* C7: directory creation is safe under concurrent first use: no handler
\* fails with an 'already exists' error, and a handler that saves its page
\* gets past ensurePagesDirectory with both directories in place.
C7_MkdirRaceTolerated ==
    \A u \in CrawlUrls :
        /\ herr[u] # "EEXIST"
        /\ (config.savePerPage /\ hpc[u] \in PastEnsure) =>
               {PagesDir, SubfolderPath(config)} \subseteq dirs

\* C8: with savePerPage false no step creates a directory or a per-page file,
\* while every handler that got past pushData has its record in the record
\* store.
C8_PerPageDisabled ==
    /\ [][~config.savePerPage => (dirs' = dirs /\ pageFiles' = pageFiles)]_vars
    /\ [](~config.savePerPage =>
              \A u \in CrawlUrls :
                  hpc[u] \in PastPush =>
                      \E k \in 1..Len(dataset) : dataset[k] = PageData(u))

C8_Witness ==
    /\ ~config.savePerPage
    /\ \A u \in CrawlUrls : hpc[u] = "done"
    /\ Cardinality({dataset[k] : k \in 1..Len(dataset)}) = 2
    /\ dirs = {}
    /\ pageFiles = <<>>

\* the path of a URL: what starts at the first "/" after the host (the "//"
\* of the scheme are symbols 2 and 3), empty if the URL ends with the host
PathOf(url) ==
    LET slashes == {k \in 4..Len(url) : url[k] = "/"}
    IN  IF slashes = {} THEN <<>>
        ELSE SubSeq(url, CHOOSE k \in slashes : \A m \in slashes : k <= m, Len(url))

\* a path has a segment when it holds a symbol other than "/"
HasPathSegment(url) == \E k \in 1..Len(PathOf(url)) : PathOf(url)[k] # "/"

\* the symbols of the path after its last "/"
FinalPathSegment(url) ==
    LET p == PathOf(url)
        slashes == {k \in 1..Len(p) : p[k] = "/"}
    IN  IF slashes = {} THEN <<>>
        ELSE SubSeq(p, (CHOOSE k \in slashes : \A m \in slashes : m <= k) + 1, Len(p))

NoPatternMatches == \A k \in 1..Len(CallPatterns) : ~RegexTest(CallPatterns[k], efUrl)

\* C11: for a URL that matches no pattern, extractFilename returns "index"
\* exactly when the URL has no path segment, and the URL's final path
\* segment otherwise.
C11_NoMatchFallback ==
    (efResult # NoValue /\ NoPatternMatches) =>
        /\ efResult = <<"index">> <=> ~HasPathSegment(efUrl)
        /\ HasPathSegment(efUrl) => efResult = FinalPathSegment(efUrl)

----------------------------------------------------------------------------
(* Claims about the counters of write() *)

\* C12: every flush leaves the batch empty and both running counters at 0.
C12_FlushResetsCounters ==
    \A k \in 1..Len(flushLog) :
        /\ flushLog[k].currentResults = <<>>
        /\ flushLog[k].currentSize = 0
        /\ flushLog[k].estimatedTokens = 0

\* the record the next loop iteration processes
NextRecord == jsonFiles[idx]

\* the next loop iteration meets estimatedTokens + recordTokens > maxTokens
TokenOverflowNext ==
    /\ wpc = "loop"
    /\ idx <= Len(jsonFiles)
    /\ config.maxTokens # Undefined
    /\ estimatedTokens + NextRecord.tokens > config.maxTokens

\* what C13 says of one iteration that meets the overflow: a non-empty batch
\* went to the file numbered fileCounter, the record opens the new batch (which
\* the byte branch of the same iteration may flush in turn), and
\* estimatedTokens is half the record's tokens, rounded down
TokenOverflowStep ==
    /\ currentResults # <<>> =>
           /\ OutName(fileCounter) \in DOMAIN outFiles'
           /\ outFiles'[OutName(fileCounter)] = currentResults
    /\ \/ currentResults' = <<NextRecord>>
       \/ /\ currentResults' = <<>>
          /\ Len(written') > 0
          /\ outFiles'[written'[Len(written')]] = <<NextRecord>>
    /\ estimatedTokens' = NextRecord.tokens \div 2

\* the example of C13: token weights 1500, 1500, 1500 under maxTokens = 2000
IsExample1500 ==
    /\ config.maxTokens = 2000
    /\ Len(jsonFiles) = 3
    /\ \A k \in 1..3 : jsonFiles[k].tokens = 1500

\* the example's outcome: estimatedTokens is 1500 after record 1 and 750 after
\* records 2 and 3, and write() leaves three files of one record each
Example1500Outcome ==
    /\ idx = 2 => estimatedTokens = 1500
    /\ idx \in {3, 4} => estimatedTokens = 750
    /\ wpc = "done" =>
           /\ Len(written) = 3
           /\ \A k \in 1..3 : outFiles[OutName(k)] = <<jsonFiles[k]>>

\* C13: whenever estimatedTokens + recordTokens > maxTokens, the non-empty
\* batch is flushed to its own file first, the record becomes the first record
\* of the new batch and estimatedTokens is floor(recordTokens / 2); token
\* weights 1500, 1500, 1500 with maxTokens = 2000 give three files of one
\* record each, with estimatedTokens 1500, 750, 750 after records 1, 2, 3.
C13_TokenOverflowStep ==
    /\ [][TokenOverflowNext => TokenOverflowStep]_vars
    /\ [](IsExample1500 => Example1500Outcome)

\* the example alone
C13_ExampleOnly == IsExample1500 => Example1500Outcome

\* the step for records that fit maxTokens on their own
C13_StepForFittingRecords ==
    [][(TokenOverflowNext /\ NextRecord.tokens <= config.maxTokens)
           => TokenOverflowStep]_vars

\* C17: when maxTokens is set, estimatedTokens never exceeds maxTokens.
C17_EstimateWithinMaxTokens ==
    config.maxTokens # Undefined => estimatedTokens <= config.maxTokens

\* the counter reaches the ceiling, after a flush that left it above 0
C17_Witness ==
    /\ config.maxTokens # Undefined
    /\ estimatedTokens = config.maxTokens
    /\ \E k \in 1..Len(flushLog) : flushLog[k].estimatedTokens > 0

\* C18: write() never writes an empty output file, so there are never more
\* output files than input records processed.
C18_NoEmptyOutputFile ==
    /\ \A n \in DOMAIN outFiles : Len(outFiles[n]) >= 1
    /\ Len(written) <= idx - 1

----------------------------------------------------------------------------
(* Claims about the request handler's steps *)

\* the records of page u in the record store
RecordsOf(u) == {k \in 1..Len(dataset) : dataset[k] = PageData(u)}

\* the steps of the handler that come after the selector wait and have an
\* effect outside the handler
EffectSteps == {"savePageToFile", "pushData", "onVisitPage", "enqueueLinks"}

\* the selector wait of u's invocation times out in this step
TimesOut(u) == timeouts'[u] = timeouts[u] + 1

\* the invocation ends in error there, having written no file, pushed no
\* record, run no hook and enqueued no link
TimeoutOutcome(u) ==
    /\ hpc'[u] = "failed"
    /\ herr'[u] = "TimedOut"
    /\ pageFiles' = pageFiles
    /\ dataset' = dataset
    /\ SeqRange(steps'[u]) \cap EffectSteps = {}

\* C14: when the wait for config.selector times out, the error ends the
\* invocation, which has written no per-page file, pushed no record, run no
\* onVisitPage hook and enqueued no links; a page whose every attempt timed
\* out has no record in the record store.
C14_SelectorTimeoutNoRecord ==
    /\ [][\A u \in CrawlUrls : TimesOut(u) => TimeoutOutcome(u)]_vars
    /\ [](\A u \in CrawlUrls : timeouts[u] = attempts[u] => RecordsOf(u) = {})

\* a page whose attempts all timed out, retries exhausted, beside a page that
\* produced its record
C14_Witness ==
    \E u, v \in CrawlUrls :
        /\ hpc[u] = "failed"
        /\ attempts[u] > config.maxRequestRetries
        /\ timeouts[u] = attempts[u]
        /\ RecordsOf(u) = {}
        /\ RecordsOf(v) # {}

\* C15: across all handler attempts for a page, retries after a failed
\* onVisitPage included, at most one record of that page is pushed to the
\* record store.
C15_OneRecordPerPage ==
    \A u \in CrawlUrls : Cardinality(RecordsOf(u)) <= 1

\* lines 142-185: the steps of one invocation under cfg, in program order
ExpectedSteps(cfg) ==
    (IF cfg.selector THEN <<"waitForSelector">> ELSE <<>>)
        \o <<"getPageHtml", "savePageToFile", "pushData">>
        \o (IF cfg.onVisitPage THEN <<"onVisitPage">> ELSE <<>>)
        \o (IF cfg.throttle THEN <<"delay">> ELSE <<>>)
        \o <<"enqueueLinks">>

IsPrefix(s, t) == Len(s) <= Len(t) /\ s = SubSeq(t, 1, Len(s))

\* the next step of a handler invocation that is under way
HandlerStep(v) ==
    \/ SelectorFound(v)
    \/ SelectorTimedOut(v)
    \/ GetPageHtml(v)
    \/ SavePageToFile(v)
    \/ MkdirPages(v)
    \/ MkdirSub(v)
    \/ WritePageFile(v)
    \/ PushData(v)
    \/ OnVisitPageDone(v)
    \/ OnVisitPageThrows(v)
    \/ Delay(v)
    \/ DelayElapsed(v)
    \/ EnqueueLinks(v)

\* C16: the steps an invocation has completed are always an initial part of:
\* selector wait, extraction, savePageToFile, pushData, optional onVisitPage,
\* optional delay, enqueueLinks; an invocation that finished completed them
\* all; while a handler sleeps in the throttle delay every other handler
\* under way can take its next step.
C16_StepOrder ==
    \A u \in CrawlUrls :
        /\ IsPrefix(steps[u], ExpectedSteps(config))
        /\ hpc[u] = "done" => steps[u] = ExpectedSteps(config)
        /\ hpc[u] = "sleeping" =>
               \A v \in CrawlUrls \ {u} :
                   hpc[v] \in RunningPcs => ENABLED HandlerStep(v)

\* every optional step on: one handler has gone through all seven steps
\* while another sleeps in its throttle delay
C16_Witness ==
    /\ config.selector /\ config.savePerPage /\ config.onVisitPage /\ config.throttle
    /\ \E u, v \in CrawlUrls :
           /\ hpc[u] = "sleeping"
           /\ hpc[v] = "done"
           /\ Len(steps[v]) = 7
           /\ steps[v] = ExpectedSteps(config)
           /\ PageFilePath(config, v) \in DOMAIN pageFiles

\* the pages whose savePageToFile has returned in some invocation (pushData
\* follows it at once and cannot fail)
SavedPages ==
    {u \in CrawlUrls : "savePageToFile" \in SeqRange(steps[u]) \/ RecordsOf(u) # {}}

\* C19: with savePerPage enabled no per-page file is overwritten by another
\* page: every saved page's file still holds that page, and there are as
\* many per-page files as pages saved.
C19_NoPageFileOverwritten ==
    config.savePerPage =>
        /\ \A u \in SavedPages :
               /\ PageFilePath(config, u) \in DOMAIN pageFiles
               /\ pageFiles[PageFilePath(config, u)] = PageData(u)
        /\ Cardinality(DOMAIN pageFiles) = Cardinality(SavedPages)

====
